---- MODULE Spec2Model ----
(***************************************************************************)
(* TeleMedicineAIHelper: the session/profile context (hooks/useAuth.tsx),  *)
(* the route guard (ProtectedRoute, App.tsx), the login page               *)
(* (pages/auth/LoginPage.tsx) and the backend access layer                 *)
(* (config/supabase.ts).                                                   *)
(*                                                                         *)
(* JavaScript values: an optional string is a string, "" standing for      *)
(* undefined, null and '' alike (all falsy under ||).  An e-mail address   *)
(* is the sequence of its parts between '@' signs, so that split('@') is   *)
(* the value itself; the empty address is <<"">>.                          *)
(***************************************************************************)
EXTENDS Integers, Sequences, FiniteSets, Bags, TLC

VARIABLES
    \* the session hook (useSupabaseAuth), as read by AuthProvider
    supabaseUser, profile, loading, error,
    \* the router
    location,
    \* the remote auth service: the registered e-mail addresses
    accounts,
    \* LoginPage: its useState values, and its pending setTimeout callbacks
    page, navTimers,
    \* the event loop: the bag of awaited remote calls not yet settled
    inflight,
    \* observation: invocations of each entry point, remote calls each issued,
    \* the last settled call
    invoked, issued, lastResult,
    \* the remote store: the rows of one table and the next row id
    table, nextId,
    \* the remote object storage: the stored (bucket, path) pairs
    files,
    \* the calls of the backend access helpers, one per caller, and the
    \* public URLs uploadFile has returned for each stored object
    calls, published,
    \* the realtime client: the channels it holds, the subscriptions made
    \* (each with the invocations of its callback), the change events delivered
    channels, subs, delivered

sessionVars == <<supabaseUser, profile, loading, error>>

pageVars == <<page, navTimers>>

obsVars == <<invoked, issued, lastResult>>

authVars == <<sessionVars, location, accounts, pageVars, inflight, obsVars>>

realtimeVars == <<channels, subs, delivered>>

backendVars == <<table, nextId, files, calls, published, realtimeVars>>

----------------------------------------------------------------------------
(* Values *)

Null == [null |-> TRUE]

NoEmail == <<"">>

DemoDomain == "telemedicine.demo"

DemoEmail(role) == <<role, DemoDomain>>

\* UserRole enum
UserRole == {"patient", "doctor", "admin", "nurse"}

RoleOpt == UserRole \cup {""}

NameOpt == {"", "Ada"}

UserIds == {"u1", "u2"}

\* a || b on optional strings
Or(a, b) == IF a # "" THEN a ELSE b

\* a || b on e-mail addresses
OrEmail(a, b) == IF a # NoEmail THEN a ELSE b

\* the remote identities (AuthUser) the auth service can hand to the hook
Users ==
    [id : UserIds,
     email : {NoEmail, DemoEmail("patient")},
     user_metadata : [full_name : NameOpt, role : RoleOpt],
     app_metadata : [role : RoleOpt]]

\* the profile rows of the remote store
Profiles ==
    [id : UserIds,
     full_name : NameOpt,
     email : {NoEmail, DemoEmail("doctor")},
     role : RoleOpt]

----------------------------------------------------------------------------
(* useAuth.tsx: the derived view *)

\* profile?.f: the field of the profile row, undefined when there is no row
ProfileField(p, f) == IF p = Null THEN "" ELSE p[f]

ProfileEmail(p) == IF p = Null THEN NoEmail ELSE p.email

\* role: profile?.role || supabaseUser.user_metadata?.role || 'patient'
DerivedRole(u, p) ==
    Or(ProfileField(p, "role"), Or(u.user_metadata.role, "patient"))

\* the name without the part of the e-mail address before '@'
DerivedName_NoLocalPart(u, p) ==
    Or(ProfileField(p, "full_name"), Or(u.user_metadata.full_name, "User"))

\* name: profile?.full_name || user_metadata?.full_name || email?.split('@')[0] || 'User'
DerivedName(u, p) ==
    Or(ProfileField(p, "full_name"),
       Or(u.user_metadata.full_name, Or(Head(u.email), "User")))

\* email: profile?.email || supabaseUser.email || ''
DerivedEmail(u, p) == OrEmail(ProfileEmail(p), OrEmail(u.email, NoEmail))

\* const user: User | null = supabaseUser ? {...} : null
DerivedUser(u, p) ==
    IF u = Null THEN Null
    ELSE [id |-> u.id,
          name |-> DerivedName(u, p),
          email |-> DerivedEmail(u, p),
          role |-> DerivedRole(u, p)]

user == DerivedUser(supabaseUser, profile)

\* isAuthenticated asking for a loaded profile row as well
IsAuthenticatedOf_NeedsProfile(u) == u # Null /\ u.id # "" /\ profile # Null

\* const isAuthenticated = !!supabaseUser && !!supabaseUser.id
IsAuthenticatedOf(u) == u # Null /\ u.id # ""

isAuthenticated == IsAuthenticatedOf(supabaseUser)

----------------------------------------------------------------------------
(* config/supabase.ts: getUserRole *)

\* user.app_metadata?.role || user.user_metadata?.role || null
getUserRole(u) ==
    IF u = Null THEN ""
    ELSE Or(u.app_metadata.role, Or(u.user_metadata.role, ""))

----------------------------------------------------------------------------
(* ProtectedRoute and App *)

LoginPath == "/login"

ProtectedPaths == {"/dashboard", "/profile", "/admin"}

PublicPaths == {"/", LoginPath}

Paths == PublicPaths \cup ProtectedPaths

\* the guard with its authentication test dropped
ProtectedRoute_NoCheck(isAuth, isLoadingProp, redirectPath) ==
    IF isLoadingProp THEN [kind |-> "spinner"] ELSE [kind |-> "outlet"]

\* ProtectedRoute({isAuthenticated, loading = false, redirectPath = '/login'})
ProtectedRoute(isAuth, isLoadingProp, redirectPath) ==
    IF isLoadingProp THEN [kind |-> "spinner"]
    ELSE IF ~isAuth THEN [kind |-> "navigate", to |-> redirectPath]
    ELSE [kind |-> "outlet"]

\* isAdmin taking every signed-in viewer for an admin
IsAdmin_AnyUser(usr) == usr # Null

\* const isAdmin = user?.role === 'admin'
IsAdmin(usr) == usr # Null /\ usr.role = "admin"

\* the <Route> elements App renders: {isAdmin && <Route path="admin" .../>}
RouteTable(usr) ==
    PublicPaths \cup (ProtectedPaths \ {"/admin"})
        \cup (IF IsAdmin(usr) THEN {"/admin"} ELSE {})

\* the route table App renders: none while it returns the loading screen
RenderedRoutes(isLoadingNow, usr) ==
    IF isLoadingNow THEN {} ELSE RouteTable(usr)

\* App: what is rendered at a path.  The guard is the element of the
\* pathless parent route of the protected routes; App passes it no loading prop.
AppView(isLoadingNow, isAuth, usr, path) ==
    IF isLoadingNow THEN [kind |-> "loading"]
    ELSE IF path \notin RouteTable(usr) THEN [kind |-> "nomatch"]
    ELSE IF path \in PublicPaths THEN [kind |-> "page", page |-> path]
    ELSE LET guard == ProtectedRoute(isAuth, FALSE, LoginPath)
         IN IF guard.kind = "outlet" THEN [kind |-> "page", page |-> path]
            ELSE guard

view == AppView(loading, isAuthenticated, user, location)

----------------------------------------------------------------------------
(* Bounds *)

\* user-initiated auth operations (submit, demo click, login, register, logout)
MaxOps == 2

----------------------------------------------------------------------------
(* The session hook (hooks/useSupabaseAuth) and the remote auth service *)

DemoPassword == "demo123456"

Passwords == {DemoPassword, "wrong"}

\* the roles of the three demo buttons
DemoRoles == {"patient", "doctor", "admin"}

\* the addresses typed into forms
TypedEmails == {DemoEmail("patient"), DemoEmail("doctor")}

\* the identity the auth service holds for a registered address
RemoteUser(e) ==
    [id |-> Head(e),
     email |-> e,
     user_metadata |-> [full_name |-> "Ada", role |-> Head(e)],
     app_metadata |-> [role |-> ""]]

ValidCredentials(e, p) == e \in accounts /\ p = DemoPassword

InvalidMessage == "Invalid login credentials"

\* what signIn({email, password}) settles to: net is the transport's state
SignInResult(e, p, net, msg) ==
    IF net = "down" THEN [kind |-> "throw", success |-> FALSE, message |-> msg]
    ELSE IF ValidCredentials(e, p)
         THEN [kind |-> "return", success |-> TRUE, message |-> "Signed in successfully"]
         ELSE [kind |-> "return", success |-> FALSE, message |-> InvalidMessage]

\* what signUp({email, password, fullName, role, ...}) settles to
SignUpResult(e, net, msg) ==
    IF net = "down" THEN [kind |-> "throw", success |-> FALSE, message |-> msg]
    ELSE IF e \in accounts
         THEN [kind |-> "return", success |-> FALSE, message |-> "User already registered"]
         ELSE [kind |-> "return", success |-> TRUE, message |-> "Account created"]

\* the profile row the hook keeps for a registered identity
ProfileRow(u) ==
    [id |-> u.id, full_name |-> u.user_metadata.full_name,
     email |-> u.email, role |-> u.user_metadata.role]

\* the hook's state after a signIn settles
SignInEffect(e, res) ==
    IF res.kind = "return" /\ res.success
    THEN /\ supabaseUser' = RemoteUser(e)
         /\ profile' = Null
         /\ error' = ""
    ELSE /\ error' = IF res.kind = "return" THEN res.message ELSE error
         /\ UNCHANGED <<supabaseUser, profile>>

----------------------------------------------------------------------------
(* LoginPage *)

\* useState('') x2, useState<string | null>(null) x2, useState(false)
InitialPage ==
    [email |-> NoEmail, password |-> "", error |-> "", success |-> "",
     isLoading |-> FALSE]

\* const { login } = useAuth(); const { signIn } = useSupabaseAuth();
\* const navigate = useNavigate(): the names bound in the component's scope
LoginPageScope == {"login", "signIn", "navigate"}

\* LoginPage is rendered by <Route path="login">, inside App's <Routes>
Mounted(isLoadingNow, path) == ~isLoadingNow /\ path = LoginPath

PageMounted == Mounted(loading, location)

Origins == {"submit", "demo", "login", "register", "logout", "updateProfile"}

OpsDone == invoked["submit"] + invoked["demo"] + invoked["login"]
           + invoked["register"] + invoked["logout"] + invoked["updateProfile"]

Request(origin, api, e, p, role) ==
    [origin |-> origin, api |-> api, email |-> e, password |-> p,
     role |-> role, live |-> TRUE]

\* one invocation of an entry point that awaits one remote call
Issue(origin, req) ==
    /\ OpsDone < MaxOps
    /\ invoked' = [invoked EXCEPT ![origin] = @ + 1]
    /\ issued' = [issued EXCEPT ![origin] = @ + 1]
    /\ inflight' = inflight (+) SetToBag({req})

\* the component instance is gone: its pending continuations no longer
\* reach any rendered state
DetachOne(r) ==
    IF r.origin \in {"submit", "demo"} THEN [r EXCEPT !.live = FALSE] ELSE r

Detach(reqs) ==
    LET after == {DetachOne(r) : r \in BagToSet(reqs)}
    IN [q \in after |->
            (IF BagIn(q, reqs) THEN CopiesIn(q, reqs) ELSE 0)
            + (IF q.live \/ ~BagIn([q EXCEPT !.live = TRUE], reqs) THEN 0
               ELSE CopiesIn([q EXCEPT !.live = TRUE], reqs))]

\* the router moves to path; leaving /login unmounts LoginPage
MoveTo(path) ==
    /\ location' = path
    /\ IF PageMounted /\ path # LoginPath
       THEN page' = InitialPage /\ inflight' = Detach(inflight)
       ELSE UNCHANGED <<page, inflight>>

\* onChange of the e-mail input
SetEmail(e) ==
    /\ PageMounted
    /\ page' = [page EXCEPT !.email = e]
    /\ UNCHANGED <<sessionVars, location, accounts, navTimers, inflight, obsVars, backendVars>>

\* onChange of the password input
SetPassword(p) ==
    /\ PageMounted
    /\ page' = [page EXCEPT !.password = p]
    /\ UNCHANGED <<sessionVars, location, accounts, navTimers, inflight, obsVars, backendVars>>

\* handleSubmit clearing the context's error itself
HandleSubmit_ClearsError ==
    /\ PageMounted
    /\ ~page.isLoading
    /\ page.email # NoEmail /\ page.password # ""
    /\ page' = [page EXCEPT !.error = "", !.success = "", !.isLoading = TRUE]
    /\ Issue("submit", Request("submit", "signIn", page.email, page.password, ""))
    /\ error' = ""
    /\ UNCHANGED <<supabaseUser, profile, loading, location, accounts, navTimers,
                   lastResult, backendVars>>

\* handleSubmit up to its await: the inputs are required, the button is
\* disabled while isLoading
HandleSubmit ==
    /\ PageMounted
    /\ ~page.isLoading
    /\ page.email # NoEmail /\ page.password # ""
    /\ page' = [page EXCEPT !.error = "", !.success = "", !.isLoading = TRUE]
    /\ Issue("submit", Request("submit", "signIn", page.email, page.password, ""))
    /\ UNCHANGED <<sessionVars, location, accounts, navTimers, lastResult, backendVars>>

\* a demo button's onClick up to its await
DemoClick(role) ==
    /\ PageMounted
    /\ page' = [page EXCEPT !.email = DemoEmail(role), !.password = DemoPassword]
    /\ Issue("demo", Request("demo", "signIn", DemoEmail(role), DemoPassword, role))
    /\ UNCHANGED <<sessionVars, location, accounts, navTimers, lastResult, backendVars>>

\* handleSubmit without its finally block: the flag is reset in the try only
SubmitSettled_NoFinally(pg, res) ==
    IF res.kind = "return"
    THEN IF res.success
         THEN [pg EXCEPT !.success = res.message, !.isLoading = FALSE]
         ELSE [pg EXCEPT !.error = res.message, !.isLoading = FALSE]
    ELSE [pg EXCEPT !.error = Or(res.message, "An error occurred. Please try again later.")]

\* handleSubmit after its await: the try, catch and finally blocks
SubmitSettled(pg, res) ==
    IF res.kind = "return"
    THEN IF res.success
         THEN [pg EXCEPT !.success = res.message, !.isLoading = FALSE]
         ELSE [pg EXCEPT !.error = res.message, !.isLoading = FALSE]
    ELSE [pg EXCEPT !.error = Or(res.message, "An error occurred. Please try again later."),
                    !.isLoading = FALSE]

\* the navigation scheduled after every settled submit
SubmitSchedulesNav_Always(res) == TRUE

\* setTimeout(() => navigate('/dashboard'), 1000) is reached
SubmitSchedulesNav(res) == res.kind = "return" /\ res.success

\* a demo button's catch block is entered when its signIn throws
DemoEntersCatch(res) == res.kind = "throw"

\* the catch block's signUp(...) is a call only if the name is bound
DemoCallsSignUp(res) == DemoEntersCatch(res) /\ "signUp" \in LoginPageScope

----------------------------------------------------------------------------
(* useAuth.tsx: the wrappers *)

\* login returning whether a result arrived instead of its success flag
login_AnyResult(res) == IF res.kind = "throw" THEN "false" ELSE "true"

\* login: try { return (await signIn(...)).success } catch { return false }
login(res) == IF res.kind = "throw" THEN "false"
              ELSE IF res.success THEN "true" ELSE "false"

\* register: try { return (await signUp(...)).success } catch { return false }
register(res) == IF res.kind = "throw" THEN "false"
                 ELSE IF res.success THEN "true" ELSE "false"

\* logout: await signOut()
logout(res) == IF res.kind = "throw" THEN "throws" ELSE "void"

\* updateProfile catching whatever updateSupabaseProfile throws
updateProfile_Swallows(res) == "void"

\* updateProfile: await updateSupabaseProfile(data)
updateProfile(res) == IF res.kind = "throw" THEN "throws" ELSE "void"

\* how the entry point's own promise settles
Returned(origin, res) ==
    CASE origin = "login" -> login(res)
      [] origin = "register" -> register(res)
      [] origin = "logout" -> logout(res)
      [] origin = "updateProfile" -> updateProfile(res)
      [] OTHER -> "void"

\* a call of the wrapper login(email, password)
LoginCall(e, p) ==
    /\ Issue("login", Request("login", "signIn", e, p, ""))
    /\ UNCHANGED <<sessionVars, location, accounts, pageVars, lastResult, backendVars>>

\* a call of the wrapper register(name, email, password, role)
RegisterCall(e, p, role) ==
    /\ Issue("register", Request("register", "signUp", e, p, role))
    /\ UNCHANGED <<sessionVars, location, accounts, pageVars, lastResult, backendVars>>

\* a call of the wrapper logout()
LogoutCall ==
    /\ Issue("logout", Request("logout", "signOut", NoEmail, "", ""))
    /\ UNCHANGED <<sessionVars, location, accounts, pageVars, lastResult, backendVars>>

\* a call of the wrapper updateProfile(data)
UpdateProfileCall ==
    /\ Issue("updateProfile", Request("updateProfile", "updateProfile", NoEmail, "", ""))
    /\ UNCHANGED <<sessionVars, location, accounts, pageVars, lastResult, backendVars>>

----------------------------------------------------------------------------
(* The event loop: an awaited remote call settles *)

ThrownMessages == {"", "Failed to fetch"}

Result(r, net, msg) ==
    CASE r.api = "signIn" -> SignInResult(r.email, r.password, net, msg)
      [] r.api = "signUp" -> SignUpResult(r.email, net, msg)
      [] OTHER -> IF net = "down"
                  THEN [kind |-> "throw", success |-> FALSE, message |-> msg]
                  ELSE [kind |-> "return", success |-> TRUE, message |-> ""]

\* the hook's state after the call settles
HookEffect(r, res) ==
    CASE r.api = "signIn" ->
            /\ SignInEffect(r.email, res)
            /\ UNCHANGED accounts
      [] r.api = "signUp" ->
            /\ accounts' = IF res.kind = "return" /\ res.success
                            THEN accounts \cup {r.email} ELSE accounts
            /\ error' = IF res.kind = "throw" THEN error
                         ELSE IF res.success THEN "" ELSE res.message
            /\ UNCHANGED <<supabaseUser, profile>>
      [] r.api = "updateProfile" ->
            /\ profile' = IF res.kind = "return" /\ supabaseUser # Null
                           THEN ProfileRow(supabaseUser) ELSE profile
            /\ UNCHANGED <<supabaseUser, error, accounts>>
      [] OTHER ->
            /\ IF res.kind = "return"
               THEN supabaseUser' = Null /\ profile' = Null /\ error' = ""
               ELSE UNCHANGED <<supabaseUser, profile, error>>
            /\ UNCHANGED accounts

\* handleSubmit calling signIn again after a failure
NextCalls_Retry(r, res) ==
    IF r.origin = "submit" /\ ~res.success THEN {r} ELSE {}

\* the remote calls the caller's continuation goes on to await: the demo
\* button's catch block calls signUp; handleSubmit, login, register and logout
\* await nothing more
NextCalls(r, res) ==
    IF r.origin = "demo" /\ r.api = "signIn" /\ DemoCallsSignUp(res)
    THEN {[r EXCEPT !.api = "signUp"]}
    ELSE {}

Settle(r, net, msg) ==
    LET res == Result(r, net, msg)
        rest == inflight (-) SetToBag({r})
        more == NextCalls(r, res)
    IN
    /\ BagIn(r, inflight)
    /\ HookEffect(r, res)
    /\ UNCHANGED <<loading, location, invoked, backendVars>>
    /\ page' = IF r.origin = "submit" /\ r.live THEN SubmitSettled(page, res) ELSE page
    /\ navTimers' = IF r.origin = "submit" /\ SubmitSchedulesNav(res)
                     THEN navTimers + 1 ELSE navTimers
    /\ inflight' = rest (+) SetToBag(more)
    /\ issued' = [issued EXCEPT ![r.origin] = @ + Cardinality(more)]
    /\ lastResult' = [origin |-> r.origin, api |-> r.api, email |-> r.email,
                       kind |-> res.kind, success |-> res.success,
                       message |-> res.message,
                       valid |-> ValidCredentials(r.email, r.password),
                       returned |-> Returned(r.origin, res)]

\* a pending setTimeout callback runs: navigate('/dashboard')
NavTimerFire ==
    /\ navTimers > 0
    /\ navTimers' = navTimers - 1
    /\ MoveTo("/dashboard")
    /\ UNCHANGED <<sessionVars, accounts, obsVars, backendVars>>

----------------------------------------------------------------------------
(* The router *)

\* the viewer opens another path
Goto(path) ==
    /\ path # location
    /\ MoveTo(path)
    /\ UNCHANGED <<sessionVars, accounts, navTimers, obsVars, backendVars>>

\* <Navigate to={redirectPath} replace /> is rendered
Redirect ==
    /\ view.kind = "navigate"
    /\ MoveTo(view.to)
    /\ UNCHANGED <<sessionVars, accounts, navTimers, obsVars, backendVars>>

----------------------------------------------------------------------------
(* The session hook's own transitions *)

\* the stored session is read at start-up: Loading -> Authenticated | Unauthenticated
SessionResolved(u) ==
    /\ loading
    /\ loading' = FALSE
    /\ supabaseUser' = u
    /\ UNCHANGED <<profile, error, location, accounts, pageVars, inflight, obsVars, backendVars>>

\* the profile row of the signed-in identity arrives
ProfileLoaded(p) ==
    /\ ~loading
    /\ supabaseUser # Null
    /\ p.id = supabaseUser.id
    /\ profile # p
    /\ profile' = p
    /\ UNCHANGED <<supabaseUser, loading, error, location, accounts, pageVars,
                   inflight, obsVars, backendVars>>

\* the auth service reports another identity for the session
AuthStateChange(u) ==
    /\ ~loading
    /\ supabaseUser # u
    /\ supabaseUser' = u
    /\ profile' = Null
    /\ UNCHANGED <<loading, error, location, accounts, pageVars, inflight, obsVars, backendVars>>

\* clearError()
ClearError ==
    /\ error # ""
    /\ error' = ""
    /\ UNCHANGED <<supabaseUser, profile, loading, location, accounts, pageVars,
                   inflight, obsVars, backendVars>>

----------------------------------------------------------------------------
(* config/supabase.ts: the backend access layer *)

\* rows a table may hold, and the bound on the rows ever created
MaxRows == 3

Columns == {"id", "k"}

KValues == {"a", "b"}

\* the errors a remote call can answer with: a message, and a code or none
RemoteErrors ==
    {[message |-> "permission denied", code |-> "42501"],
     [message |-> "", code |-> ""]}

\* .single() on a result that is not exactly one row
NoRowsError ==
    [message |-> "JSON object requested, multiple (or no) rows returned",
     code |-> "PGRST116"]

\* the remote client's answer { data, error }
Answer(d, e) == [data |-> d, error |-> e]

\* how a helper's promise settles
Returns(v) == [outcome |-> "returned", value |-> v, thrown |-> Null]

Throws(x) == [outcome |-> "threw", value |-> Null, thrown |-> x]

\* handleSupabaseError logging the error without throwing
handleSupabaseError_LogOnly(err) == Returns(Null)

\* handleSupabaseError: throw new SupabaseError(error.message || '...', error.code)
handleSupabaseError(err) ==
    Throws([name |-> "SupabaseError",
            message |-> Or(err.message, "An unexpected error occurred"),
            code |-> err.code])

\* if (error) handleSupabaseError(error); return result as T
createRecord(ans) ==
    IF ans.error # Null THEN handleSupabaseError(ans.error) ELSE Returns(ans.data)

updateRecord(ans) ==
    IF ans.error # Null THEN handleSupabaseError(ans.error) ELSE Returns(ans.data)

\* if (error) handleSupabaseError(error)
deleteRecord(ans) ==
    IF ans.error # Null THEN handleSupabaseError(ans.error) ELSE Returns(Null)

deleteFile(ans) ==
    IF ans.error # Null THEN handleSupabaseError(ans.error) ELSE Returns(Null)

signOut(ans) ==
    IF ans.error # Null THEN handleSupabaseError(ans.error) ELSE Returns(Null)

\* getRecord answering every error alike
getRecord_NoSpecialCase(ans) ==
    IF ans.error # Null THEN handleSupabaseError(ans.error) ELSE Returns(ans.data)

\* if (error && error.code !== 'PGRST116') handleSupabaseError(error); return data
getRecord(ans) ==
    IF ans.error # Null /\ ans.error.code # "PGRST116"
    THEN handleSupabaseError(ans.error)
    ELSE Returns(ans.data)

(* getRecords: the query and the request built from it *)

\* an optional number or boolean: <<>> when not given, <<x>> when given
None == <<>>

Some(x) == <<x>>

\* the truthiness of an optional number: undefined and 0 are falsy
Truthy(n) == n # None /\ n[1] # 0

\* query.limit || 10
DefaultPageSize == 10

OrNumber(n, d) == IF Truthy(n) THEN n[1] ELSE d

\* ascending: query.order.ascending ?? true
Ascending(o) == IF o.ascending = None THEN TRUE ELSE o.ascending[1]

\* supabase.from(table).select(...): no condition, no order, no window
EmptyRequest == [eq |-> {}, order |-> None, limit |-> None, offset |-> None]

\* Object.entries(query.filter).forEach(([key, value]) => queryBuilder.eq(key, value))
WithFilter(b, q) ==
    IF q.filter = Null THEN b
    ELSE [b EXCEPT !.eq = @ \cup {<<c, q.filter[c]>> : c \in DOMAIN q.filter}]

\* queryBuilder.order(column, { ascending })
WithOrder(b, q) ==
    IF q.order = Null THEN b
    ELSE [b EXCEPT !.order = Some([column |-> q.order.column,
                                   ascending |-> Ascending(q.order)])]

\* the limit applied whenever one is given, 0 included
WithLimit_ZeroGiven(b, q) ==
    IF q.limit # None THEN [b EXCEPT !.limit = q.limit] ELSE b

\* if (query?.limit) queryBuilder.limit(query.limit)
WithLimit(b, q) ==
    IF Truthy(q.limit) THEN [b EXCEPT !.limit = q.limit] ELSE b

\* if (query?.offset) queryBuilder.range(offset, offset + (limit || 10) - 1);
\* range(from, to) asks for offset = from and limit = to - from + 1
WithRange(b, q) ==
    IF Truthy(q.offset)
    THEN LET from == q.offset[1]
             to == q.offset[1] + OrNumber(q.limit, DefaultPageSize) - 1
         IN [b EXCEPT !.offset = Some(from), !.limit = Some(to - from + 1)]
    ELSE b

\* the request getRecords sends for a query
BuildRequest(q) == WithRange(WithLimit(WithOrder(WithFilter(EmptyRequest, q), q), q), q)

(* the remote store answering a request *)

Matches(row, conds) == \A c \in conds : row[c[1]] = c[2]

Before(x, y, o) ==
    IF x = y THEN FALSE
    ELSE IF o.ascending THEN (IF o.column = "id" THEN x < y ELSE x = "a")
         ELSE (IF o.column = "id" THEN x > y ELSE x = "b")

RECURSIVE InsertSorted(_, _, _)
\* row put after the rows not ordered after it (a stable sort)
InsertSorted(row, sorted, o) ==
    IF sorted = <<>> THEN <<row>>
    ELSE IF Before(row[o.column], Head(sorted)[o.column], o)
         THEN <<row>> \o sorted
         ELSE <<Head(sorted)>> \o InsertSorted(row, Tail(sorted), o)

RECURSIVE SortRows(_, _)
SortRows(rows, o) ==
    IF rows = <<>> THEN <<>>
    ELSE InsertSorted(rows[Len(rows)], SortRows(SubSeq(rows, 1, Len(rows) - 1), o), o)

\* the filtered, ordered rows of a request
Selected(b, rows) ==
    LET kept == SelectSeq(rows, LAMBDA row : Matches(row, b.eq))
    IN IF b.order = None THEN kept ELSE SortRows(kept, b.order[1])

Min(x, y) == IF x < y THEN x ELSE y

\* positions first .. first + count - 1 (from 0) of a list, as far as it goes
Window(rows, first, count) ==
    SubSeq(rows, first + 1, Min(Len(rows), first + count))

\* the rows the store sends for a request
Execute(b, rows) ==
    LET all == Selected(b, rows)
        first == IF b.offset = None THEN 0 ELSE b.offset[1]
        count == IF b.limit = None THEN Len(all) ELSE b.limit[1]
    IN Window(all, first, count)

\* const { data, error } = await queryBuilder;
\* if (error) handleSupabaseError(error); return data as T[]
getRecords(ans) ==
    IF ans.error # Null THEN handleSupabaseError(ans.error) ELSE Returns(ans.data)

(* storage *)

Buckets == {"avatars"}

\* object paths as their parts between '/' signs: <<"", "a">> is "/a"
RawPaths == {<<"a">>, <<"", "a">>, <<"d", "a">>}

\* the path the storage service stores an upload under: empty parts dropped
StoredPath(path) == SelectSeq(path, LAMBDA part : part # "")

\* storage.from(bucket).getPublicUrl(path).data.publicUrl
getPublicUrl(bucket, path) == <<"storage/v1/object/public", bucket>> \o path

DuplicateError == [message |-> "The resource already exists", code |-> ""]

\* uploadFile returning the URL of the path it was given
uploadFile_ArgPath(bucket, path, ans) ==
    IF ans.error # Null THEN handleSupabaseError(ans.error)
    ELSE Returns(getPublicUrl(bucket, path))

\* if (error) handleSupabaseError(error); return getPublicUrl(data.path).publicUrl
uploadFile(bucket, path, ans) ==
    IF ans.error # Null THEN handleSupabaseError(ans.error)
    ELSE Returns(getPublicUrl(bucket, ans.data.path))

(* the helpers called: a call sends its request and is suspended at its
   await; the remote serves the request; the answer is delivered and the
   helper goes on to its return or throw *)

\* the components calling the helpers, each awaiting one call at a time
Callers == {"c1", "c2"}

Idle ==
    [phase |-> "idle", op |-> "", args |-> Null, remote |-> Answer(Null, Null),
     seen |-> <<>>, result |-> Returns(Null)]

RowWithId(rows, id) == SelectSeq(rows, LAMBDA row : row.id = id)

\* the createRecord requests sent and not yet served
CreatesSent ==
    Cardinality({c \in Callers :
                    calls[c].phase = "sent" /\ calls[c].op = "createRecord"})

\* the caller awaits no call
CanCall(c) == calls[c].phase \in {"idle", "settled"}

\* a helper runs up to its await: the request is sent
Send(c, op, args) ==
    /\ calls' = [calls EXCEPT ![c] =
                    [Idle EXCEPT !.phase = "sent", !.op = op, !.args = args]]
    /\ UNCHANGED <<table, nextId, files, published, authVars, realtimeVars>>

\* createRecord(table, data): insert(data).select().single()
CreateRecord(c, k) ==
    /\ CanCall(c)
    /\ nextId + CreatesSent <= MaxRows
    /\ Send(c, "createRecord", [k |-> k])

\* updateRecord(table, id, data): update(data).eq('id', id).select().single()
UpdateRecord(c, id, k) ==
    /\ CanCall(c)
    /\ Send(c, "updateRecord", [id |-> id, k |-> k])

\* deleteRecord(table, id): delete().eq('id', id)
DeleteRecord(c, id) ==
    /\ CanCall(c)
    /\ Send(c, "deleteRecord", [id |-> id])

\* getRecord(table, id): select('*').eq('id', id).single()
GetRecord(c, id) ==
    /\ CanCall(c)
    /\ Send(c, "getRecord", [id |-> id])

\* getRecords(table, query)
GetRecords(c, q) ==
    /\ CanCall(c)
    /\ Send(c, "getRecords", q)

\* uploadFile(bucket, path, file, options): storage.from(bucket).upload(...)
UploadFile(c, bucket, path, upsert) ==
    /\ CanCall(c)
    /\ Send(c, "uploadFile", [bucket |-> bucket, path |-> path, upsert |-> upsert])

\* deleteFile(bucket, path): storage.from(bucket).remove([path])
DeleteFile(c, bucket, path) ==
    /\ CanCall(c)
    /\ Send(c, "deleteFile", [bucket |-> bucket, path |-> path])

\* signOut(): supabase.auth.signOut()
SignOut(c) ==
    /\ CanCall(c)
    /\ Send(c, "signOut", Null)

\* the remote's answer { data, error } to a request, fail being the error it
\* answers with for a reason of its own, if any
StoreAnswer(op, args, fail) ==
    IF fail # Null THEN Answer(Null, fail)
    ELSE CASE op = "createRecord" ->
                Answer([id |-> nextId, k |-> args.k], Null)
           [] op = "updateRecord" ->
                IF RowWithId(table, args.id) = <<>> THEN Answer(Null, NoRowsError)
                ELSE Answer([id |-> args.id, k |-> args.k], Null)
           [] op = "getRecord" ->
                IF RowWithId(table, args.id) = <<>> THEN Answer(Null, NoRowsError)
                ELSE Answer(RowWithId(table, args.id)[1], Null)
           [] op = "getRecords" ->
                Answer(Execute(BuildRequest(args), table), Null)
           [] op = "uploadFile" ->
                IF <<args.bucket, StoredPath(args.path)>> \in files /\ ~args.upsert
                THEN Answer(Null, DuplicateError)
                ELSE Answer([path |-> StoredPath(args.path)], Null)
           [] OTHER -> Answer(Null, Null)

\* the rows of the table after the request is served
StoreTable(op, args) ==
    CASE op = "createRecord" -> Append(table, [id |-> nextId, k |-> args.k])
      [] op = "updateRecord" ->
            [i \in DOMAIN table |->
                IF table[i].id = args.id THEN [id |-> args.id, k |-> args.k]
                ELSE table[i]]
      [] op = "deleteRecord" -> SelectSeq(table, LAMBDA row : row.id # args.id)
      [] OTHER -> table

\* the stored objects after the request is served
StoreFiles(op, args, ans) ==
    CASE op = "uploadFile" /\ ans.error = Null ->
            files \cup {<<args.bucket, StoredPath(args.path)>>}
      [] op = "deleteFile" /\ ans.error = Null ->
            files \ {<<args.bucket, StoredPath(args.path)>>}
      [] OTHER -> files

\* the remote serves the request of a suspended call
Serve(c, fail) ==
    LET op == calls[c].op
        args == calls[c].args
        ans == StoreAnswer(op, args, fail)
    IN /\ calls[c].phase = "sent"
       /\ calls' = [calls EXCEPT ![c].phase = "answered", ![c].remote = ans,
                                 ![c].seen = IF op \in {"getRecord", "getRecords"}
                                             THEN table ELSE <<>>]
       /\ table' = IF fail = Null THEN StoreTable(op, args) ELSE table
       /\ nextId' = IF fail = Null /\ op = "createRecord" THEN nextId + 1 ELSE nextId
       /\ files' = StoreFiles(op, args, ans)
       /\ IF op = "signOut" /\ fail = Null
          THEN supabaseUser' = Null /\ profile' = Null
          ELSE UNCHANGED <<supabaseUser, profile>>
       /\ UNCHANGED <<loading, error, location, accounts, pageVars, inflight,
                      obsVars, published, realtimeVars>>

\* the helper after its await
Continue(op, args, ans) ==
    CASE op = "createRecord" -> createRecord(ans)
      [] op = "updateRecord" -> updateRecord(ans)
      [] op = "deleteRecord" -> deleteRecord(ans)
      [] op = "getRecord" -> getRecord(ans)
      [] op = "getRecords" -> getRecords(ans)
      [] op = "uploadFile" -> uploadFile(args.bucket, args.path, ans)
      [] op = "deleteFile" -> deleteFile(ans)
      [] op = "signOut" -> signOut(ans)

\* the answer is delivered: the suspended call resumes and returns or throws
Deliver(c) ==
    LET op == calls[c].op
        args == calls[c].args
        res == Continue(op, args, calls[c].remote)
    IN /\ calls[c].phase = "answered"
       /\ calls' = [calls EXCEPT ![c].phase = "settled", ![c].result = res]
       /\ published' =
            IF op = "uploadFile" /\ res.outcome = "returned"
            THEN [published EXCEPT ![<<args.bucket, StoredPath(args.path)>>] =
                        @ \cup {<<args.path, res.value>>}]
            ELSE published
       /\ UNCHANGED <<table, nextId, files, authVars, realtimeVars>>

(* realtime *)

\* subscriptions ever made, and change events ever delivered
MaxSubs == 2

MaxEvents == 2

Tables == {"appointments", "chat_messages"}

\* a postgres_changes filter: none, or k=eq.<value>
ChangeFilters == {""} \cup KValues

\* supabase.channel(`${table}_changes`)
ChannelTopic(tbl) == <<tbl, "_changes">>

NoSub == [state |-> "none"]

NextSub == Cardinality({i \in 1..MaxSubs : subs[i] # NoSub}) + 1

\* the channel a binding listens on receives the event
Receives(sub, tbl, k) ==
    /\ sub.topic = ChannelTopic(tbl)
    /\ sub.table = tbl
    /\ sub.filter \in {"", k}

\* supabase.removeChannel(channel) completed: the client holds it no more
RemoveChannel(chans, ch) == chans \ {ch}

\* subscribeToTable(table, callback, filter): channel(...).on(...).subscribe()
SubscribeToTable(tbl, filter) ==
    /\ NextSub <= MaxSubs
    /\ subs' = [subs EXCEPT ![NextSub] =
                    [state |-> "subscribed", topic |-> ChannelTopic(tbl),
                     table |-> tbl, filter |-> filter, calls |-> 0]]
    /\ channels' = channels \cup {NextSub}
    /\ UNCHANGED <<delivered, table, nextId, files, calls, published, authVars>>

\* unsubscribeFromChannel(channel), with the channel subscribeToTable
\* returned: supabase.removeChannel(channel) is called, and its promise is
\* neither awaited nor returned
UnsubscribeFromChannel(ch) ==
    /\ subs[ch] # NoSub
    /\ subs' = [subs EXCEPT ![ch].state = "unsubscribed"]
    /\ UNCHANGED <<channels, delivered, table, nextId, files, calls, published, authVars>>

\* the promise of removeChannel settles: the channel has left the client
ChannelLeft(ch) ==
    /\ ch \in channels
    /\ subs[ch].state = "unsubscribed"
    /\ channels' = RemoveChannel(channels, ch)
    /\ UNCHANGED <<subs, delivered, table, nextId, files, calls, published, authVars>>

\* the change feed delivers a row change of a table: the client hands it to
\* every channel it holds, which invokes its matching callbacks
ChangeEvent(tbl, k) ==
    /\ delivered < MaxEvents
    /\ delivered' = delivered + 1
    /\ subs' = [i \in 1..MaxSubs |->
                    IF i \in channels /\ Receives(subs[i], tbl, k)
                    THEN [subs[i] EXCEPT !.calls = @ + 1]
                    ELSE subs[i]]
    /\ UNCHANGED <<channels, table, nextId, files, calls, published, authVars>>

\* the queries getRecords is called with
OptNumbers == {None, Some(0), Some(1), Some(2)}

QueryShapes ==
    {[filter |-> Null, order |-> Null],
     [filter |-> [k |-> "a"], order |-> Null],
     [filter |-> [id |-> 2, k |-> "a"], order |-> Null],
     [filter |-> Null, order |-> [column |-> "k", ascending |-> None]],
     [filter |-> [k |-> "a"], order |-> [column |-> "id", ascending |-> Some(FALSE)]]}

Queries ==
    {[filter |-> s.filter, order |-> s.order, limit |-> l, offset |-> o] :
        s \in QueryShapes, l \in OptNumbers, o \in OptNumbers}

\* a few of them
SomeQueries ==
    [filter : {Null}, order : {Null}, limit : {None, Some(1)}, offset : {None, Some(1)}]

Fails == {Null} \cup RemoteErrors

StoredObjects == {<<b, StoredPath(p)>> : b \in Buckets, p \in RawPaths}

InitBackend ==
    /\ table = <<>>
    /\ nextId = 1
    /\ files = {}
    /\ published = [o \in StoredObjects |-> {}]
    /\ calls = [c \in Callers |-> Idle]
    /\ channels = {}
    /\ subs = [i \in 1..MaxSubs |-> NoSub]
    /\ delivered = 0

----------------------------------------------------------------------------
(* Specifications *)

NoResult ==
    [origin |-> "", api |-> "", email |-> NoEmail, kind |-> "", success |-> FALSE, message |-> "", valid |-> FALSE,
     returned |-> ""]

InitAuth ==
    /\ supabaseUser = Null
    /\ profile = Null
    /\ loading = TRUE
    /\ error = ""
    /\ location = LoginPath
    /\ accounts = {DemoEmail("patient")}
    /\ page = InitialPage
    /\ navTimers = 0
    /\ inflight = EmptyBag
    /\ invoked = [o \in Origins |-> 0]
    /\ issued = [o \in Origins |-> 0]
    /\ lastResult = NoResult

Init == InitAuth /\ InitBackend

vars == <<authVars, backendVars>>

\* the login page, the wrappers, the hook and the router
Next ==
    \/ \E u \in {Null} \cup {RemoteUser(e) : e \in accounts} : SessionResolved(u)
    \/ \E e \in TypedEmails : SetEmail(e)
    \/ \E p \in Passwords : SetPassword(p)
    \/ HandleSubmit
    \/ \E role \in DemoRoles : DemoClick(role)
    \/ \E e \in TypedEmails, p \in Passwords : LoginCall(e, p)
    \/ \E e \in TypedEmails : RegisterCall(e, DemoPassword, Head(e))
    \/ LogoutCall
    \/ \E r \in BagToSet(inflight), net \in {"up", "down"}, msg \in ThrownMessages :
            Settle(r, net, msg)
    \/ NavTimerFire
    \/ \E path \in {LoginPath, "/dashboard"} : Goto(path)
    \/ Redirect
    \/ ClearError

Spec == Init /\ [][Next]_vars

\* the session hook's transitions over every identity and profile row
NextSession ==
    \/ \E u \in {Null} \cup Users : SessionResolved(u)
    \/ \E u \in {Null} \cup Users : AuthStateChange(u)
    \/ \E p \in Profiles : ProfileLoaded(p)
    \/ \E path \in Paths : Goto(path)
    \/ Redirect

SpecSession == Init /\ [][NextSession]_vars

\* the record helpers against the remote store, over every query
NextRecords ==
    \/ \E k \in KValues : CreateRecord("c1", k)
    \/ \E id \in 1..MaxRows, k \in KValues : UpdateRecord("c1", id, k)
    \/ \E id \in 1..MaxRows : DeleteRecord("c1", id)
    \/ \E id \in 1..MaxRows : GetRecord("c1", id)
    \/ \E q \in Queries : GetRecords("c1", q)
    \/ \E fail \in Fails : Serve("c1", fail)
    \/ Deliver("c1")

SpecRecords == Init /\ [][NextRecords]_vars

\* every backend access helper, each remote call failing or not
NextBackend ==
    \/ CreateRecord("c1", "a")
    \/ UpdateRecord("c1", 1, "b")
    \/ DeleteRecord("c1", 1)
    \/ \E q \in SomeQueries : GetRecords("c1", q)
    \/ \E b \in Buckets, p \in RawPaths, upsert \in BOOLEAN : UploadFile("c1", b, p, upsert)
    \/ \E b \in Buckets, p \in RawPaths : DeleteFile("c1", b, p)
    \/ SignOut("c1")
    \/ \E fail \in Fails : Serve("c1", fail)
    \/ Deliver("c1")

SpecBackend == Init /\ [][NextBackend]_vars

\* two callers' calls of the record helpers, served and delivered in any order
NextInterleaved ==
    \/ \E c \in Callers : CreateRecord(c, "a")
    \/ \E c \in Callers : UpdateRecord(c, 1, "b")
    \/ \E c \in Callers : DeleteRecord(c, 1)
    \/ \E c \in Callers : GetRecord(c, 1)
    \/ \E c \in Callers, fail \in Fails : Serve(c, fail)
    \/ \E c \in Callers : Deliver(c)

SpecInterleaved == Init /\ [][NextInterleaved]_vars

\* table-change subscriptions against the change feed
NextRealtime ==
    \/ \E tbl \in Tables, filter \in ChangeFilters : SubscribeToTable(tbl, filter)
    \/ \E ch \in 1..MaxSubs : UnsubscribeFromChannel(ch)
    \/ \E ch \in 1..MaxSubs : ChannelLeft(ch)
    \/ \E tbl \in Tables, k \in KValues : ChangeEvent(tbl, k)

SpecRealtime == Init /\ [][NextRealtime]_vars

\* the wrappers of the auth context called by pages, each call settling
NextWrappers ==
    \/ \E u \in {Null} \cup {RemoteUser(e) : e \in accounts} : SessionResolved(u)
    \/ \E e \in TypedEmails, p \in Passwords : LoginCall(e, p)
    \/ \E e \in TypedEmails : RegisterCall(e, DemoPassword, Head(e))
    \/ LogoutCall
    \/ UpdateProfileCall
    \/ \E r \in BagToSet(inflight), net \in {"up", "down"}, msg \in ThrownMessages :
            Settle(r, net, msg)

SpecWrappers == Init /\ [][NextWrappers]_vars

----------------------------------------------------------------------------
(* Claims *)

HasSession == supabaseUser # Null

GuardedHere == location \in ProtectedPaths \cap RouteTable(user)

\* C1: at a route of the protected subtree, loading renders the loading
\* state whatever the authentication; not loading and no session renders the
\* redirect to /login; not loading and a session renders the protected page;
\* and a protected page is rendered only while isAuthenticated.
C1_RouteGuard ==
    /\ loading => view.kind = "loading"
    /\ \A a \in BOOLEAN : ProtectedRoute(a, TRUE, LoginPath).kind = "spinner"
    /\ (~loading /\ ~HasSession /\ GuardedHere)
            => view = [kind |-> "navigate", to |-> LoginPath]
    /\ (~loading /\ HasSession /\ GuardedHere)
            => view = [kind |-> "page", page |-> location]
    /\ (view.kind = "page" /\ view.page \in ProtectedPaths) => isAuthenticated

C1_Witness ==
    /\ ~loading /\ HasSession /\ location = "/dashboard"
    /\ view = [kind |-> "page", page |-> "/dashboard"]

\* a step in which an awaited call settles
SettleStep == invoked' = invoked /\ location' = location /\ inflight' # inflight

\* C3: a signIn answered for invalid credentials returns success = false with
\* a non-empty message and leaves the session as it was (null stays null,
\* isAuthenticated stays false); the login wrapper then returns false.
C3_InvalidSignIn ==
    [][(/\ SettleStep
        /\ lastResult'.api = "signIn"
        /\ lastResult'.kind = "return"
        /\ ~lastResult'.valid)
       => (/\ ~lastResult'.success
           /\ lastResult'.message # ""
           /\ supabaseUser' = supabaseUser
           /\ (~isAuthenticated => ~isAuthenticated')
           /\ (lastResult'.origin = "login" => lastResult'.returned = "false"))]_vars

C3_Witness ==
    /\ lastResult.api = "signIn" /\ lastResult.origin = "login"
    /\ lastResult.kind = "return" /\ ~lastResult.valid
    /\ lastResult.returned = "false"
    /\ supabaseUser = Null

\* C9: after a demo button's signIn failed, its signUp for the same e-mail,
\* the demo password and the button's role is awaited.
C9_DemoProvisioning ==
    (/\ lastResult.origin = "demo"
     /\ lastResult.api = "signIn"
     /\ ~(lastResult.kind = "return" /\ lastResult.success))
    => \E q \in BagToSet(inflight) :
          /\ q.origin = "demo" /\ q.api = "signUp"
          /\ q.email = lastResult.email
          /\ q.password = DemoPassword
          /\ q.role = Head(lastResult.email)

\* C10: every submit, every login() and every register() has issued exactly
\* one remote call, so that no settled call, failed or thrown, is issued again.
C10_NoRetry ==
    \A o \in {"submit", "login", "register"} : issued[o] = invoked[o]

C10_Witness ==
    /\ lastResult.origin = "submit" /\ ~lastResult.success
    /\ invoked["submit"] = 1 /\ issued["submit"] = 1
    /\ inflight = EmptyBag

\* what the claim says of one settled call
C4_GetRecord_Of(call) ==
    call.op = "getRecord" =>
        LET e == call.remote.error
            res == call.result
            rows == RowWithId(call.seen, call.args.id)
        IN /\ (e # Null /\ e.code = "PGRST116") => res = Returns(Null)
           /\ (e # Null /\ e.code # "PGRST116") =>
                  /\ res.outcome = "threw"
                  /\ res.thrown.name = "SupabaseError"
                  /\ res.thrown.code = e.code
           /\ (e = Null) => (rows # <<>> /\ res = Returns(rows[1]))

\* C4: getRecord returns null, and does not throw, when the single-row fetch
\* answers "no rows" (PGRST116); throws a SupabaseError for every other remote
\* error; returns the row when it exists.
C4_GetRecord ==
    \A c \in Callers : calls[c].phase = "settled" => C4_GetRecord_Of(calls[c])

C4_Witness_Of(call) ==
    /\ call.op = "getRecord"
    /\ call.remote.error = NoRowsError
    /\ RowWithId(call.seen, call.args.id) = <<>>
    /\ call.seen # <<>>
    /\ call.result.outcome = "returned"

C4_Witness ==
    \E c \in Callers : calls[c].phase = "settled" /\ C4_Witness_Of(calls[c])

ErrorHelpers ==
    {"createRecord", "updateRecord", "deleteRecord", "getRecords", "uploadFile",
     "deleteFile", "signOut"}

\* what the claim says of one settled call
C5_StructuredError_Of(call) ==
    (call.op \in ErrorHelpers /\ call.remote.error # Null) =>
        LET e == call.remote.error
        IN call.result =
              [outcome |-> "threw", value |-> Null,
               thrown |-> [name |-> "SupabaseError",
                           message |-> IF e.message = ""
                                       THEN "An unexpected error occurred"
                                       ELSE e.message,
                           code |-> e.code]]

\* C5: whenever the remote call of createRecord, updateRecord, deleteRecord,
\* getRecords, uploadFile, deleteFile or signOut answers an error, the helper
\* throws a SupabaseError with the remote message (the default text when it
\* is empty) and the remote code, and returns nothing.
C5_StructuredError ==
    \A c \in Callers : calls[c].phase = "settled" => C5_StructuredError_Of(calls[c])

C5_Witness_Of(call) ==
    /\ call.op = "uploadFile"
    /\ call.remote.error # Null /\ call.remote.error.message = ""
    /\ call.result.outcome = "threw"
    /\ call.result.thrown.message = "An unexpected error occurred"

C5_Witness ==
    \E c \in Callers : calls[c].phase = "settled" /\ C5_Witness_Of(calls[c])

\* the filtered, ordered rows of a query
FilteredOrdered(q, rows) == Selected(WithOrder(WithFilter(EmptyRequest, q), q), rows)

\* what the claim says of one settled call
C6_PageSlice_Of(call) ==
    (/\ call.op = "getRecords"
     /\ call.result.outcome = "returned"
     /\ call.args.limit # None /\ call.args.offset # None)
    => call.result.value =
          Window(FilteredOrdered(call.args, call.seen),
                 call.args.offset[1], call.args.limit[1])

\* C6: with a limit L >= 0 and an offset O >= 0 given, getRecords returns
\* exactly the rows at positions O .. O+L-1 of the filtered, ordered rows.
C6_PageSlice ==
    \A c \in Callers : calls[c].phase = "settled" => C6_PageSlice_Of(calls[c])

\* C7: once a subscription is unsubscribed, no step invokes its callback.
C7_UnsubscribeHalts ==
    [][\A i \in 1..MaxSubs :
          subs[i].state = "unsubscribed" => subs'[i] = subs[i]]_vars

\* C8: a successful uploadFile returns the public URL of the path the storage
\* service reported for the upload, in its bucket; a failed one throws and
\* returns no URL; every upload to one stored object has returned one URL.
C8_UploadUrl ==
    /\ \A c \in Callers :
          (calls[c].phase = "settled" /\ calls[c].op = "uploadFile") =>
              /\ calls[c].remote.error = Null =>
                    calls[c].result =
                        Returns(getPublicUrl(calls[c].args.bucket,
                                             calls[c].remote.data.path))
              /\ calls[c].remote.error # Null =>
                    (calls[c].result.outcome = "threw" /\ calls[c].result.value = Null)
    /\ \A o \in StoredObjects : Cardinality({u[2] : u \in published[o]}) <= 1

C8_Witness ==
    /\ \E c \in Callers :
          /\ calls[c].phase = "settled" /\ calls[c].op = "uploadFile"
          /\ calls[c].result.outcome = "returned"
          /\ calls[c].args.path = <<"", "a">>
    /\ Cardinality(published[<<"avatars", <<"a">>>>]) = 2

\* the precedence the claim states
ClaimedRole(u) == Or(u.app_metadata.role, Or(u.user_metadata.role, "patient"))

\* C2: the displayed user's role is app_metadata.role if present, else
\* user_metadata.role if present, else "patient", whatever the profile row.
C2_RolePrecedence == HasSession => user.role = ClaimedRole(supabaseUser)

AdminPage == [kind |-> "page", page |-> "/admin"]

\* C11: /admin is in the rendered route table only when loading is false, a
\* session is present and the derived role is "admin"; a viewer without a
\* session or with role patient, doctor or nurse is never shown the admin page.
C11_AdminGated ==
    /\ "/admin" \in RenderedRoutes(loading, user)
            => (~loading /\ HasSession /\ user.role = "admin")
    /\ (~HasSession \/ user.role \in {"patient", "doctor", "nurse"})
            => view # AdminPage
    /\ view = AdminPage => (isAuthenticated /\ IsAdmin(user))

C11_Witness ==
    /\ view = AdminPage
    /\ profile # Null /\ profile.role = "admin"
    /\ supabaseUser.user_metadata.role = "patient"

\* a step of a page component: an entry point is invoked (a submit, a demo
\* click, a call of login, register or logout), the router moves, a pending
\* navigation timer runs, or a form field changes
PageStep ==
    \/ invoked' # invoked
    \/ location' # location
    \/ navTimers' < navTimers
    \/ (inflight' = inflight /\ page' # page)

\* C12: no step of a page component (the login page, the route guard, App)
\* changes the user, profile, loading or error of the session context; they
\* change only when an operation of the session hook settles or the hook
\* itself moves.
C12_SingleWriter ==
    [][PageStep => (sessionVars' = sessionVars /\ user' = user
                    /\ isAuthenticated' = isAuthenticated)]_vars

C12_Witness ==
    /\ page.isLoading /\ invoked["submit"] = 2
    /\ error = InvalidMessage
    /\ lastResult.origin = "submit"

RECURSIVE FirstNonEmpty(_, _)
\* the first entry of a non-empty list that differs from empty, else its last
FirstNonEmpty(list, empty) ==
    IF Len(list) = 1 \/ Head(list) # empty THEN Head(list)
    ELSE FirstNonEmpty(Tail(list), empty)

\* C13: user is null exactly when there is no remote user; otherwise its id
\* is the remote user's, its name is the first non-empty of the current
\* profile's full_name, the current user_metadata.full_name, the part of the
\* current e-mail before '@' and "User", and its e-mail is the first non-empty
\* of the current profile's e-mail, the remote user's e-mail and the empty one.
C13_DerivedUser ==
    /\ (user = Null) <=> (supabaseUser = Null)
    /\ supabaseUser # Null =>
          LET profileName == IF profile = Null THEN "" ELSE profile.full_name
              profileMail == IF profile = Null THEN NoEmail ELSE profile.email
          IN /\ user.id = supabaseUser.id
             /\ user.name = FirstNonEmpty(<<profileName,
                                            supabaseUser.user_metadata.full_name,
                                            supabaseUser.email[1], "User">>, "")
             /\ user.email = FirstNonEmpty(<<profileMail, supabaseUser.email,
                                             NoEmail>>, NoEmail)

C13_Witness ==
    /\ supabaseUser # Null /\ profile # Null
    /\ profile.full_name = "" /\ supabaseUser.user_metadata.full_name = ""
    /\ user.name = "patient"
    /\ user.email = DemoEmail("doctor")

\* the remote identity of the patient demo account under another id
WithId(i) == [RemoteUser(DemoEmail("patient")) EXCEPT !.id = i]

\* C14: isAuthenticated is true exactly when a remote user with a non-empty
\* id is present, whether or not a profile row is loaded, and whenever it is
\* true the derived user is non-null and has the remote user's id.
C14_IsAuthenticated ==
    /\ isAuthenticated <=> (supabaseUser # Null /\ supabaseUser.id # "")
    /\ isAuthenticated => (user # Null /\ user.id = supabaseUser.id)
    /\ ~IsAuthenticatedOf(Null)
    /\ \A i \in UserIds \cup {""} : IsAuthenticatedOf(WithId(i)) <=> (i # "")

C14_Witness ==
    /\ isAuthenticated /\ profile = Null
    /\ user # Null /\ user.id = "u2"
    /\ view = [kind |-> "page", page |-> "/profile"]

\* the sign-in requests of the rendered form's submits not yet settled
LiveSubmits == {r \in BagToSet(inflight) : r.origin = "submit" /\ r.live}

\* C15: the rendered form's isLoading is true exactly while a sign-in request
\* of one of its submits is in flight (at most one is), so it is false after
\* every outcome and whenever no sign-in request is in flight.
C15_SubmitFlag ==
    /\ page.isLoading <=> (LiveSubmits # {})
    /\ \A r \in LiveSubmits : CopiesIn(r, inflight) = 1
    /\ Cardinality(LiveSubmits) <= 1
    /\ (\A r \in BagToSet(inflight) : r.api # "signIn") => ~page.isLoading

C15_Witness ==
    /\ PageMounted /\ ~page.isLoading
    /\ invoked["submit"] = 2 /\ inflight = EmptyBag
    /\ lastResult.origin = "submit" /\ lastResult.kind = "throw"
    /\ page.error = "Failed to fetch"

\* a step in which the sign-in of the rendered form's submit settles
LiveSubmitSettles ==
    page.isLoading /\ ~page'.isLoading /\ location' = location

SignedIn(res) == res.kind = "return" /\ res.success

\* C16: a submit clears the form's error and success; when its sign-in
\* settles exactly one of them is set, success for success = true and error
\* otherwise (a throw included); the two are never both set; and the
\* navigation to /dashboard is scheduled only by a submit whose sign-in
\* returned success = true.
C16_SubmitOutcome ==
    [][/\ ~(page.error # "" /\ page.success # "")
       /\ ~(page'.error # "" /\ page'.success # "")
       /\ invoked'["submit"] > invoked["submit"]
            => (page'.error = "" /\ page'.success = "")
       /\ LiveSubmitSettles =>
            /\ lastResult'.origin = "submit"
            /\ page.error = "" /\ page.success = ""
            /\ IF SignedIn(lastResult')
               THEN page'.success = lastResult'.message /\ page'.error = ""
               ELSE page'.error # "" /\ page'.success = ""
            /\ (page'.error # "") # (page'.success # "")
       /\ navTimers' > navTimers =>
            /\ lastResult'.origin = "submit" /\ SignedIn(lastResult')
            /\ navTimers' = navTimers + 1
       /\ navTimers' < navTimers => location' = "/dashboard"]_vars

C16_Witness ==
    /\ PageMounted /\ invoked["submit"] = 2
    /\ page.success = "Signed in successfully" /\ page.error = ""
    /\ navTimers = 1 /\ lastResult.origin = "submit"

\* C17: login and register never throw: each returns the success flag of the
\* signIn/signUp result, and false when the call throws; logout and
\* updateProfile throw exactly when the underlying operation throws.
C17_Wrappers ==
    /\ lastResult.origin \in {"login", "register"} =>
          lastResult.returned =
              (IF lastResult.kind = "throw" THEN "false"
               ELSE IF lastResult.success THEN "true" ELSE "false")
    /\ lastResult.origin \in {"logout", "updateProfile"} =>
          /\ lastResult.kind = "throw" => lastResult.returned = "throws"
          /\ lastResult.kind = "return" => lastResult.returned = "void"

C17_Witness ==
    /\ lastResult.origin = "updateProfile" /\ lastResult.kind = "throw"
    /\ lastResult.returned = "throws"
    /\ invoked["login"] = 1 /\ isAuthenticated

NotGiven(n) == n \in {None, Some(0)}

\* the rows holding every entry of the filter, in the order of the table or,
\* with an order, sorted by its column, ascending unless descending is asked
ExpectedRows(q, rows) ==
    LET kept == IF q.filter = Null THEN rows
                ELSE SelectSeq(rows, LAMBDA row :
                        \A c \in DOMAIN q.filter : row[c] = q.filter[c])
    IN IF q.order = Null THEN kept
       ELSE SortRows(kept, [column |-> q.order.column,
                            ascending |-> q.order.ascending # Some(FALSE)])

\* what the claim says of one settled call
C18_WindowEdges_Of(call) ==
    (call.op = "getRecords" /\ call.result.outcome = "returned") =>
        LET q == call.args
            req == BuildRequest(q)
            all == ExpectedRows(q, call.seen)
            count == IF NotGiven(q.limit) THEN DefaultPageSize ELSE q.limit[1]
        IN /\ NotGiven(q.offset) => req.offset = None
           /\ (NotGiven(q.offset) /\ NotGiven(q.limit)) =>
                  (req.limit = None /\ call.result.value = all)
           /\ (NotGiven(q.offset) /\ ~NotGiven(q.limit)) =>
                  call.result.value = Window(all, 0, q.limit[1])
           /\ ~NotGiven(q.offset) =>
                  /\ req.offset = q.offset /\ req.limit = Some(count)
                  /\ call.result.value = Window(all, q.offset[1], count)
           /\ (q.order # Null /\ q.order.ascending = None) =>
                  (req.order # None /\ req.order[1].ascending)
           /\ q.order = Null => req.order = None

\* C18: a limit of 0 and an offset of 0 act as not given (no row limit, no
\* range); an offset O > 0 without a limit requests the range O .. O+9; no
\* order leaves the rows unordered, an order without a direction is
\* ascending; a row is returned only if it holds every entry of the filter.
C18_WindowEdges ==
    \A c \in Callers : calls[c].phase = "settled" => C18_WindowEdges_Of(calls[c])

C18_Witness_Of(call) ==
    /\ call.op = "getRecords" /\ call.result.outcome = "returned"
    /\ call.args.limit = Some(0) /\ call.args.offset = Some(2)
    /\ call.args.filter = Null
    /\ Len(call.seen) = 3 /\ Len(call.result.value) = 1

C18_Witness ==
    \E c \in Callers : calls[c].phase = "settled" /\ C18_Witness_Of(calls[c])

====
